---- MODULE Spec2Model ----
(***************************************************************************)
(* A model of the gdax-client request path: the private client's signing   *)
(* and header construction (src/src/private/mod.rs), the NewOrder encoder, *)
(* the error-aware response decoding, and the public client's GET          *)
(* (src/src/public/mod.rs).                                                *)
(*                                                                         *)
(* Text is a TLA+ string, built with \o as format! builds it.  Where the   *)
(* code works on the characters of a text (to_uppercase, base64::decode)   *)
(* the text is a sequence of one-character strings.                        *)
(***************************************************************************)
EXTENDS Integers, Sequences, FiniteSets, TLC

\* ------------------------------------------------------------------ bounds

\* The clock reading (seconds since the epoch) of the initial state.
ClockStart == 9

\* How many seconds the clock may advance during a behaviour.
MaxTicks == 1

\* Cap on the number of send() calls counted for one invocation.
MaxSends == 2

\* The callers (threads) that share the one private client.
Threads == {"t1", "t2"}

\* ------------------------------------------------------------- text helpers

LowerAlpha ==
  << "a", "b", "c", "d", "e", "f", "g", "h", "i", "j", "k", "l", "m",
     "n", "o", "p", "q", "r", "s", "t", "u", "v", "w", "x", "y", "z" >>

UpperAlpha ==
  << "A", "B", "C", "D", "E", "F", "G", "H", "I", "J", "K", "L", "M",
     "N", "O", "P", "Q", "R", "S", "T", "U", "V", "W", "X", "Y", "Z" >>

Digits == << "0", "1", "2", "3", "4", "5", "6", "7", "8", "9" >>

Range(s) == { s[i] : i \in DOMAIN s }

\* The text of a sequence of characters.
RECURSIVE Str(_)
Str(chars) == IF chars = << >> THEN "" ELSE Head(chars) \o Str(Tail(chars))

\* char::to_uppercase on the ASCII letters.
to_upper_char(ch) ==
  IF \E i \in DOMAIN LowerAlpha : LowerAlpha[i] = ch
    THEN UpperAlpha[CHOOSE i \in DOMAIN LowerAlpha : LowerAlpha[i] = ch]
    ELSE ch

\* str::to_uppercase, as signature() applies it to the method.
to_uppercase(chars) == [ i \in DOMAIN chars |-> to_upper_char(chars[i]) ]

\* char::to_lowercase on the ASCII letters.
to_lower_char(ch) ==
  IF \E i \in DOMAIN UpperAlpha : UpperAlpha[i] = ch
    THEN LowerAlpha[CHOOSE i \in DOMAIN UpperAlpha : UpperAlpha[i] = ch]
    ELSE ch

\* str::to_lowercase, as the Side visitor applies it.
to_lowercase(chars) == [ i \in DOMAIN chars |-> to_lower_char(chars[i]) ]

\* i64::to_string of a non-negative number of seconds.
RECURSIVE to_string(_)
to_string(n) ==
  IF n < 10 THEN Digits[n + 1]
  ELSE to_string(n \div 10) \o Digits[(n % 10) + 1]

\* Result<T, Error>
Ok(v) == [ tag |-> "Ok", val |-> v ]
Err(e) == [ tag |-> "Err", err |-> e ]

\* ------------------------------------------------------------------ base64

Base64Alphabet == UpperAlpha \o LowerAlpha \o Digits \o << "+", "/" >>

\* The 6-bit value of a base64 character.
b64_value(ch) ==
  (CHOOSE i \in DOMAIN Base64Alphabet : Base64Alphabet[i] = ch) - 1

\* Number of trailing '=' of the input (at most two count as padding).
b64_padding(chars) ==
  LET n == Len(chars) IN
  IF n >= 2 /\ chars[n] = "=" /\ chars[n - 1] = "=" THEN 2
  ELSE IF n >= 1 /\ chars[n] = "=" THEN 1
  ELSE 0

\* The three bytes of one group of four characters ('=' counts as zero).
b64_group(g) ==
  LET v(ch) == IF ch = "=" THEN 0 ELSE b64_value(ch)
      w == v(g[1]) * 262144 + v(g[2]) * 4096 + v(g[3]) * 64 + v(g[4])
  IN << w \div 65536, (w \div 256) % 256, w % 256 >>

RECURSIVE b64_bytes(_)
b64_bytes(chars) ==
  IF chars = << >> THEN << >>
  ELSE b64_group(SubSeq(chars, 1, 4)) \o b64_bytes(SubSeq(chars, 5, Len(chars)))

\* base64::decode (standard alphabet, padded): the bytes, or Base64Error when
\* a character is outside the alphabet or the length is not a multiple of 4.
base64_decode(chars) ==
  LET pad  == b64_padding(chars)
      data == SubSeq(chars, 1, Len(chars) - pad)
  IN IF \/ Len(chars) % 4 # 0
        \/ \E i \in DOMAIN data : data[i] \notin Range(Base64Alphabet)
       THEN Err("Base64Error")
       ELSE LET all == b64_bytes(chars)
            IN Ok(SubSeq(all, 1, Len(all) - pad))

\* Hmac::new(Sha256::new(), key); input(message); result().code(): the digest
\* is the uninterpreted term over the key bytes and the message.
hmac_sha256(key, message) == [ hmac_key |-> key, hmac_input |-> message ]

\* base64::encode of the digest, carried as a term over the digest.
base64_encode(digest) == [ base64_of |-> digest ]

\* ------------------------------------------------------- program constants

PRIVATE_API_URL == "https://api.gdax.com"

PUBLIC_API_URL == "https://api.gdax.com"

USER_AGENT == "rust-gdax-client/0.1.0"

GET == << "G", "E", "T" >>

POST == << "P", "O", "S", "T" >>

DELETE == << "D", "E", "L", "E", "T", "E" >>

\* ------------------------------------------------------------ private client

\* Client::new: the credentials are stored as given; nothing is decoded.
Client_new(key, secret, passphrase) ==
  [ key |-> key, secret |-> secret, passphrase |-> passphrase ]

\* A canonical message that leaves the body out.
signature_no_body(self, path, body, timestamp, method) ==
  LET key == base64_decode(self.secret) IN
  IF key.tag = "Err" THEN Err("InvalidSecretKey")
  ELSE LET what == timestamp \o Str(to_uppercase(method)) \o path
       IN Ok(base64_encode(hmac_sha256(key.val, what)))

\* A signer that signs with an empty key when the secret does not decode.
signature_raw_key(self, path, body, timestamp, method) ==
  LET key == base64_decode(self.secret)
      what == timestamp \o Str(to_uppercase(method)) \o path \o body
  IN Ok(base64_encode(hmac_sha256(IF key.tag = "Err" THEN << >> ELSE key.val,
                                  what)))

\* Client::signature
signature(self, path, body, timestamp, method) ==
  LET key == base64_decode(self.secret) IN
  IF key.tag = "Err" THEN Err("InvalidSecretKey")
  ELSE LET what == timestamp \o Str(to_uppercase(method)) \o path \o body
       IN Ok(base64_encode(hmac_sha256(key.val, what)))

\* Headers::new and Headers::set / set_raw: a map from header name to value.
Headers_new == [ n \in {} |-> "" ]

headers_set(h, name, value) ==
  [ n \in (DOMAIN h) \cup {name} |-> IF n = name THEN value ELSE h[n] ]

\* The body of Client::get_headers after the clock has been read.
get_headers(self, path, body, method, timestamp) ==
  LET sig == signature(self, path, body, timestamp, method) IN
  IF sig.tag = "Err" THEN sig
  ELSE LET h1 == headers_set(Headers_new, "Accept", "application/json")
           h2 == headers_set(h1, "User-Agent", USER_AGENT)
           h3 == headers_set(h2, "CB-ACCESS-KEY", self.key)
           h4 == headers_set(h3, "CB-ACCESS-SIGN", sig.val)
           h5 == headers_set(h4, "CB-ACCESS-PASSPHRASE", self.passphrase)
           h6 == headers_set(h5, "CB-ACCESS-TIMESTAMP", timestamp)
       IN Ok(h6)

\* hyper's RequestBuilder: headers() replaces the header map, header() sets
\* one header in it, body() attaches the body.  The URL is carried as the
\* text the code formats; the identifiers of the input sets (uuids, product
\* ids such as BTC-USD) hold no character a URL parser would rewrite.
rb_new(verb, url) ==
  [ verb |-> verb, url |-> url, headers |-> Headers_new,
    has_body |-> FALSE, body |-> "" ]

rb_headers(rb, h) == [ rb EXCEPT !.headers = h ]

rb_header(rb, name, value) ==
  [ rb EXCEPT !.headers = headers_set(rb.headers, name, value) ]

rb_body(rb, body) == [ rb EXCEPT !.has_body = TRUE, !.body = body ]

\* The request Client::get_and_decode builds (private client).
get_request(path, headers) ==
  rb_headers(rb_new("GET", PRIVATE_API_URL \o path), headers)

\* post_and_decode with the body() call left out.
post_request_no_body(path, body, headers) ==
  rb_header(rb_headers(rb_new("POST", PRIVATE_API_URL \o path), headers),
            "Content-Type", "application/json")

\* post_and_decode with header(ContentType) called before headers(), which
\* then replaces the map.
post_request_header_first(path, body, headers) ==
  rb_body(rb_headers(rb_header(rb_new("POST", PRIVATE_API_URL \o path),
                               "Content-Type", "application/json"),
                     headers),
          body)

\* The request Client::post_and_decode builds.
post_request(path, body, headers) ==
  rb_body(rb_header(rb_headers(rb_new("POST", PRIVATE_API_URL \o path), headers),
                    "Content-Type", "application/json"),
          body)

\* The request Client::delete_and_decode builds.
delete_request(path, headers) ==
  rb_headers(rb_new("DELETE", PRIVATE_API_URL \o path), headers)

\* The request the public Client::get_and_decode builds.
public_get_request(url) ==
  rb_header(rb_new("GET", url), "User-Agent", USER_AGENT)

\* --------------------------------------------------------- response decoding

\* StatusCode::is_success
is_success(status) == status >= 200 /\ status <= 299

\* de::from_reader::<ApiError>: the body must be a JSON object with a string
\* member `message`.
de_ApiError(body) ==
  IF body.json /\ body.has_message
    THEN Ok([ message |-> body.message ])
    ELSE Err("Json")

\* de::from_reader::<T> for the caller's target type.
de_target(body) ==
  IF body.json /\ body.target THEN Ok("decoded") ELSE Err("Json")

ApiErr(e) == [ kind |-> "Api", message |-> e.message ]

JsonErr == [ kind |-> "Json", message |-> "" ]

HttpErr == [ kind |-> "Http", message |-> "" ]

InvalidSecretKey == [ kind |-> "InvalidSecretKey", message |-> "" ]

\* Decoding that falls back to an empty ApiError when the error body does not
\* decode.
decode_response_default_error(status, body) ==
  IF ~is_success(status)
    THEN LET e == de_ApiError(body) IN
         IF e.tag = "Err" THEN Err(ApiErr([ message |-> "" ]))
         ELSE Err(ApiErr(e.val))
    ELSE LET v == de_target(body) IN
         IF v.tag = "Err" THEN Err(JsonErr) ELSE Ok(v.val)

\* Decoding that tries the target type first, whatever the status.
decode_response_target_first(status, body) ==
  LET v == de_target(body) IN
  IF v.tag = "Ok" THEN Ok(v.val)
  ELSE LET e == de_ApiError(body) IN
       IF e.tag = "Err" \/ is_success(status) THEN Err(JsonErr)
       ELSE Err(ApiErr(e.val))

\* The tail of get_and_decode / post_and_decode / delete_and_decode: what the
\* call returns for a received response.
decode_response(status, body) ==
  IF ~is_success(status)
    THEN LET e == de_ApiError(body) IN
         IF e.tag = "Err" THEN Err(JsonErr) ELSE Err(ApiErr(e.val))
    ELSE LET v == de_target(body) IN
         IF v.tag = "Err" THEN Err(JsonErr) ELSE Ok(v.val)

\* ------------------------------------------------------------ order encoding

\* An f64 amount is held in hundredths; fmt_f64 is its decimal text as the
\* JSON serializer writes it (1.0, 1.5, 1.01).
fmt_f64(x) ==
  LET h == x % 100 IN
  to_string(x \div 100) \o "." \o
    (IF h % 10 = 0 THEN Digits[(h \div 10) + 1]
     ELSE Digits[(h \div 10) + 1] \o Digits[(h % 10) + 1])

Size(v) == [ tag |-> "Size", val |-> v ]

Funds(v) == [ tag |-> "Funds", val |-> v ]

\* NewOrder::limit / market / stop.  A field a variant does not have is held
\* as NoField.
NoField == [ tag |-> "None", val |-> 0 ]

NewOrder_limit(side, product_id, size, price) ==
  [ kind |-> "Limit", side |-> side, product_id |-> product_id,
    price |-> price, size |-> size, size_or_funds |-> NoField ]

NewOrder_market(side, product_id, size_or_funds) ==
  [ kind |-> "Market", side |-> side, product_id |-> product_id,
    price |-> 0, size |-> 0, size_or_funds |-> size_or_funds ]

NewOrder_stop(side, product_id, size_or_funds, price) ==
  [ kind |-> "Stop", side |-> side, product_id |-> product_id,
    price |-> price, size |-> 0, size_or_funds |-> size_or_funds ]

\* JSON members as the derived serializers emit them, in field order.
JStr(name, s) == [ name |-> name, t |-> "string", text |-> "\"" \o s \o "\"" ]

JNum(name, x) == [ name |-> name, t |-> "number", text |-> fmt_f64(x) ]

\* impl Serialize for Side
Side_serialize(side) == IF side = "Buy" THEN "buy" ELSE "sell"

\* A visitor that matches the text as it is, without to_lowercase.
Side_deserialize_exact(chars) ==
  LET v == Str(chars) IN
  IF v = "buy" THEN Ok("Buy")
  ELSE IF v = "sell" THEN Ok("Sell")
  ELSE Err("invalid_value")

\* impl Deserialize for Side: SideVisitor::visit_str
Side_deserialize(chars) ==
  LET v == Str(to_lowercase(chars)) IN
  IF v = "buy" THEN Ok("Buy")
  ELSE IF v = "sell" THEN Ok("Sell")
  ELSE Err("invalid_value")

\* An encoder with one shape for Market and Stop that writes both amounts.
NewOrder_serialize_both(o) ==
  IF o.kind = "Limit"
    THEN << JStr("type", "limit"), JStr("side", Side_serialize(o.side)),
            JStr("product_id", o.product_id),
            JNum("price", o.price), JNum("size", o.size) >>
    ELSE << JStr("type", IF o.kind = "Market" THEN "market" ELSE "stop"),
            JStr("side", Side_serialize(o.side)),
            JStr("product_id", o.product_id),
            JNum("size", o.size_or_funds.val),
            JNum("funds", o.size_or_funds.val) >>

\* impl Serialize for NewOrder: one member list per (variant, SizeOrFunds).
NewOrder_serialize(o) ==
  CASE o.kind = "Limit" ->
         << JStr("type", "limit"), JStr("side", Side_serialize(o.side)),
            JStr("product_id", o.product_id),
            JNum("price", o.price), JNum("size", o.size) >>
    [] o.kind = "Market" /\ o.size_or_funds.tag = "Size" ->
         << JStr("type", "market"), JStr("side", Side_serialize(o.side)),
            JStr("product_id", o.product_id),
            JNum("size", o.size_or_funds.val) >>
    [] o.kind = "Market" /\ o.size_or_funds.tag = "Funds" ->
         << JStr("type", "market"), JStr("side", Side_serialize(o.side)),
            JStr("product_id", o.product_id),
            JNum("funds", o.size_or_funds.val) >>
    [] o.kind = "Stop" /\ o.size_or_funds.tag = "Size" ->
         << JStr("type", "stop"), JStr("side", Side_serialize(o.side)),
            JStr("product_id", o.product_id),
            JNum("price", o.price), JNum("size", o.size_or_funds.val) >>
    [] o.kind = "Stop" /\ o.size_or_funds.tag = "Funds" ->
         << JStr("type", "stop"), JStr("side", Side_serialize(o.side)),
            JStr("product_id", o.product_id),
            JNum("price", o.price), JNum("funds", o.size_or_funds.val) >>

RECURSIVE json_members(_)
json_members(ms) ==
  IF ms = << >> THEN ""
  ELSE "\"" \o Head(ms).name \o "\":" \o Head(ms).text \o
       (IF Len(ms) = 1 THEN "" ELSE "," \o json_members(Tail(ms)))

\* ser::to_string of a NewOrder: the compact JSON object text.
ser_to_string(o) == "{" \o json_members(NewOrder_serialize(o)) \o "}"

\* ------------------------------------------------------------------- paths

RECURSIVE join(_, _)
join(parts, sep) ==
  IF parts = << >> THEN ""
  ELSE IF Len(parts) = 1 THEN parts[1]
  ELSE parts[1] \o sep \o join(Tail(parts), sep)

\* zip(flags, names).filter(flag).map(name).collect()
RECURSIVE filter_flags(_, _)
filter_flags(flags, names) ==
  IF flags = << >> THEN << >>
  ELSE (IF Head(flags) THEN << Head(names) >> ELSE << >>)
         \o filter_flags(Tail(flags), Tail(names))

\* A query built without the filter on the flags.
orders_with_status_path_unfiltered(open, pending, active) ==
  "/orders?" \o join(<< "status=open", "status=pending", "status=active" >>, "&")

\* The path Client::get_orders_with_status requests.
orders_with_status_path(open, pending, active) ==
  LET status ==
        join(filter_flags(<< open, pending, active >>,
                          << "status=open", "status=pending", "status=active" >>),
             "&")
  IN "/orders?" \o status

\* Option<&str>
Some(v) == [ some |-> TRUE, val |-> v ]

None == [ some |-> FALSE, val |-> "" ]

\* The path Client::cancel_all_orders requests.
cancel_all_orders_path(product_id) ==
  IF product_id.some THEN "/orders?product_id=" \o product_id.val ELSE "/orders"

\* ------------------------------------------------------------------- inputs

Keys == { "api-key" }

Passphrases == { "passphrase" }

\* "c2VjcmV0" decodes to "secret", "a2V5cw==" to "keys"; the third holds a
\* character outside the base64 alphabet.
Secrets ==
  { << "c", "2", "V", "j", "c", "m", "V", "0" >>,
    << "a", "2", "V", "5", "c", "w", "=", "=" >>,
    << "c", "2", "V", "j", "*", "m", "V", "0" >> }

\* A Uuid is held as its hyphenated text, which is what format! writes.
Uuids == { "68e6a28f-ae28-4788-8d4f-5ab4e5e5ae08" }

Products == { "BTC-USD" }

Sides == { "Buy", "Sell" }

\* Amounts in hundredths: 1.01, 25.5, 300.0
Amounts == { 101, 2550, 30000 }

SizeOrFunds == { Size(v) : v \in Amounts } \cup { Funds(v) : v \in Amounts }

\* Every NewOrder over the input sets.
NewOrders ==
  { NewOrder_limit(s, p, sz, pr) :
      s \in Sides, p \in Products, sz \in Amounts, pr \in Amounts }
  \cup { NewOrder_market(s, p, sf) :
      s \in Sides, p \in Products, sf \in SizeOrFunds }
  \cup { NewOrder_stop(s, p, sf, pr) :
      s \in Sides, p \in Products, sf \in SizeOrFunds, pr \in Amounts }

\* The orders the concurrent specification posts: one of each JSON shape.
SomeOrders ==
  { NewOrder_limit("Buy", "BTC-USD", 101, 2550),
    NewOrder_market("Buy", "BTC-USD", Size(101)),
    NewOrder_market("Sell", "BTC-USD", Funds(30000)),
    NewOrder_stop("Sell", "BTC-USD", Size(101), 2550),
    NewOrder_stop("Buy", "BTC-USD", Funds(30000), 2550) }

Statuses == { 200, 400 }

\* Response bodies: {"message": m}; a body of the target type; a body of the
\* target type that also has a message member; other JSON; not JSON.
ResponseBodies ==
  { [ json |-> TRUE, has_message |-> TRUE, message |-> "Insufficient funds",
      target |-> FALSE ],
    [ json |-> TRUE, has_message |-> FALSE, message |-> "", target |-> TRUE ],
    [ json |-> TRUE, has_message |-> TRUE, message |-> "Invalid Price",
      target |-> TRUE ],
    [ json |-> TRUE, has_message |-> FALSE, message |-> "", target |-> FALSE ],
    [ json |-> FALSE, has_message |-> FALSE, message |-> "", target |-> FALSE ] }

\* -------------------------------------------------------------------- state

VARIABLES
  client,    \* the private Client: key, secret, passphrase
  now,       \* the system clock, seconds since the epoch
  pc,        \* pc[t]: where thread t's call stands
  call,      \* call[t]: the client method t invoked and its arguments
  frame,     \* frame[t]: the locals of t's get/post/delete_and_decode
  wire,      \* wire[t]: the request t's call has put on the network
  nsent,     \* nsent[t]: send() calls made by t's current invocation
  outcome,   \* outcome[t]: the response t's call received and what it returned
  side       \* a side member of a response on its way through the Side codec

vars == << client, now, pc, call, frame, wire, nsent, outcome, side >>

NoCall == [ name |-> "", api |-> "", args |-> << >> ]

NoFrame ==
  [ method |-> << >>, path |-> "", body |-> "", timestamp |-> "",
    headers |-> Headers_new ]

NoRequest == rb_new("", "")

NoBody ==
  [ json |-> FALSE, has_message |-> FALSE, message |-> "", target |-> FALSE ]

NoOutcome ==
  [ api |-> "", responded |-> FALSE, status |-> 0, body |-> NoBody,
    result |-> Ok("") ]

\* No side member is being decoded.
NoSide ==
  [ phase |-> "none", text |-> << >>, value |-> Err(""), source |-> "" ]

\* A client has been constructed and no call is in progress.
InitClient ==
  /\ client \in { Client_new(k, s, p) :
                    k \in Keys, s \in Secrets, p \in Passphrases }
  /\ now = ClockStart
  /\ pc = [ t \in Threads |-> "idle" ]
  /\ call = [ t \in Threads |-> NoCall ]
  /\ frame = [ t \in Threads |-> NoFrame ]
  /\ wire = [ t \in Threads |-> NoRequest ]
  /\ nsent = [ t \in Threads |-> 0 ]
  /\ outcome = [ t \in Threads |-> NoOutcome ]

Init == InitClient /\ side = NoSide

\* ------------------------------------------------------- entering a request

\* A private client method has computed its path (and body) and enters
\* get_and_decode, post_and_decode or delete_and_decode.
private_call(t, name, args, method, path, body) ==
  /\ pc[t] = "idle"
  /\ pc' = [ pc EXCEPT ![t] = "get_time" ]
  /\ call' = [ call EXCEPT
                 ![t] = [ name |-> name, api |-> "private", args |-> args ] ]
  /\ frame' = [ frame EXCEPT
                  ![t] = [ NoFrame EXCEPT
                             !.method = method, !.path = path, !.body = body ] ]
  /\ UNCHANGED << side, client, now, wire, nsent, outcome >>

\* Client::get_and_decode (private): get_headers(path, "", "GET")
get_and_decode(t, name, args, path) ==
  private_call(t, name, args, GET, path, "")

\* Client::post_and_decode: get_headers(path, body, "POST")
post_and_decode(t, name, args, path, body) ==
  private_call(t, name, args, POST, path, body)

\* Client::delete_and_decode: get_headers(path, "", "DELETE")
delete_and_decode(t, name, args, path) ==
  private_call(t, name, args, DELETE, path, "")

\* Client::get_and_decode (public): no headers to compute, the request is
\* built and sent at once.
public_get_and_decode(t, name, args, url) ==
  /\ pc[t] = "idle"
  /\ pc' = [ pc EXCEPT ![t] = "send" ]
  /\ call' = [ call EXCEPT
                 ![t] = [ name |-> name, api |-> "public", args |-> args ] ]
  /\ frame' = [ frame EXCEPT
                  ![t] = [ NoFrame EXCEPT !.method = GET, !.path = url ] ]
  /\ UNCHANGED << side, client, now, wire, nsent, outcome >>

\* ------------------------------------------------------- the client methods

get_accounts(t) == get_and_decode(t, "get_accounts", << >>, "/accounts")

get_account(t, id) ==
  get_and_decode(t, "get_account", << id >>, "/accounts/" \o id)

get_account_history(t, id) ==
  get_and_decode(t, "get_account_history", << id >>,
                 "/accounts/" \o id \o "/ledger")

get_account_holds(t, id) ==
  get_and_decode(t, "get_account_holds", << id >>,
                 "/accounts/" \o id \o "/holds")

post_order(t, order) ==
  LET body == ser_to_string(order) IN
  post_and_decode(t, "post_order", << order >>, "/orders", body)

cancel_order(t, order_id) ==
  delete_and_decode(t, "cancel_order", << order_id >>, "/order/" \o order_id)

cancel_all_orders(t, product_id) ==
  delete_and_decode(t, "cancel_all_orders", << product_id >>,
                    cancel_all_orders_path(product_id))

get_orders_with_status(t, open, pending, active) ==
  get_and_decode(t, "get_orders_with_status", << open, pending, active >>,
                 orders_with_status_path(open, pending, active))

get_orders(t) ==
  get_and_decode(t, "get_orders", << TRUE, TRUE, TRUE >>,
                 orders_with_status_path(TRUE, TRUE, TRUE))

get_order(t, order_id) ==
  get_and_decode(t, "get_order", << order_id >>, "/orders/" \o order_id)

\* Market-data methods of the public client, reached through Deref.
get_products(t) ==
  public_get_and_decode(t, "get_products", << >>,
                        PUBLIC_API_URL \o "/products")

get_product_ticker(t, product) ==
  public_get_and_decode(t, "get_product_ticker", << product >>,
                        PUBLIC_API_URL \o "/products/" \o product \o "/ticker")

\* ------------------------------------------------------ the steps of a call

\* A clock reading taken once and kept.
get_time_cached == ClockStart

\* get_time().sec
get_time_sec == now

\* A timestamp kept in state shared by the calls in progress.
GetTime_shared(t) ==
  /\ pc[t] = "get_time"
  /\ frame' = [ u \in Threads |->
                  IF u = t \/ pc[u] \in { "sign", "send", "recv" }
                    THEN [ frame[u] EXCEPT !.timestamp = to_string(get_time_sec) ]
                    ELSE frame[u] ]
  /\ pc' = [ pc EXCEPT ![t] = "sign" ]
  /\ UNCHANGED << side, client, now, call, wire, nsent, outcome >>

\* get_headers, first line: the timestamp is read from the clock.
GetTime(t) ==
  /\ pc[t] = "get_time"
  /\ frame' = [ frame EXCEPT ![t].timestamp = to_string(get_time_sec) ]
  /\ pc' = [ pc EXCEPT ![t] = "sign" ]
  /\ UNCHANGED << side, client, now, call, wire, nsent, outcome >>

\* What the call returns without a response having been received.
failed(api, error) ==
  [ api |-> api, responded |-> FALSE, status |-> 0, body |-> NoBody,
    result |-> Err(error) ]

\* get_headers, the rest: sign and build the header map; `?` returns
\* InvalidSecretKey from the call when the secret does not decode.
BuildHeaders(t) ==
  /\ pc[t] = "sign"
  /\ LET h == get_headers(client, frame[t].path, frame[t].body,
                          frame[t].method, frame[t].timestamp)
     IN IF h.tag = "Err"
          THEN /\ pc' = [ pc EXCEPT ![t] = "done" ]
               /\ outcome' = [ outcome EXCEPT
                                 ![t] = failed(call[t].api, InvalidSecretKey) ]
               /\ call' = [ call EXCEPT ![t] = NoCall ]
               /\ frame' = [ frame EXCEPT ![t] = NoFrame ]
          ELSE /\ pc' = [ pc EXCEPT ![t] = "send" ]
               /\ frame' = [ frame EXCEPT ![t].headers = h.val ]
               /\ UNCHANGED << call, outcome >>
  /\ UNCHANGED << side, client, now, wire, nsent >>

\* The request the call's RequestBuilder holds when send() is called.
built_request(c, f) ==
  IF c.api = "public" THEN public_get_request(f.path)
  ELSE IF f.method = GET THEN get_request(f.path, f.headers)
  ELSE IF f.method = POST THEN post_request(f.path, f.body, f.headers)
  ELSE delete_request(f.path, f.headers)

\* send() puts the request on the network.
Send(t) ==
  /\ pc[t] = "send"
  /\ nsent[t] < MaxSends
  /\ nsent' = [ nsent EXCEPT ![t] = @ + 1 ]
  /\ wire' = [ wire EXCEPT ![t] = built_request(call[t], frame[t]) ]
  /\ pc' = [ pc EXCEPT ![t] = "recv" ]
  /\ UNCHANGED << side, client, now, call, frame, outcome >>

\* send() fails before the request leaves (no connection); `?` returns the
\* hyper::Error as Error::Http.
SendFails(t) ==
  /\ pc[t] = "send"
  /\ nsent[t] < MaxSends
  /\ nsent' = [ nsent EXCEPT ![t] = @ + 1 ]
  /\ pc' = [ pc EXCEPT ![t] = "done" ]
  /\ outcome' = [ outcome EXCEPT ![t] = failed(call[t].api, HttpErr) ]
  /\ call' = [ call EXCEPT ![t] = NoCall ]
  /\ frame' = [ frame EXCEPT ![t] = NoFrame ]
  /\ UNCHANGED << side, client, now, wire >>

\* send() fails after the request has left (the response never arrives).
RecvFails(t) ==
  /\ pc[t] = "recv"
  /\ pc' = [ pc EXCEPT ![t] = "done" ]
  /\ outcome' = [ outcome EXCEPT ![t] = failed(call[t].api, HttpErr) ]
  /\ wire' = [ wire EXCEPT ![t] = NoRequest ]
  /\ call' = [ call EXCEPT ![t] = NoCall ]
  /\ frame' = [ frame EXCEPT ![t] = NoFrame ]
  /\ UNCHANGED << side, client, now, nsent >>

\* A call that sends the request again when the status is not a success.
Respond_retry(t) ==
  /\ pc[t] = "recv"
  /\ \E status \in Statuses, body \in ResponseBodies :
       IF is_success(status)
         THEN /\ outcome' = [ outcome EXCEPT
                                ![t] = [ api |-> call[t].api, responded |-> TRUE,
                                         status |-> status, body |-> body,
                                         result |-> decode_response(status, body) ] ]
              /\ pc' = [ pc EXCEPT ![t] = "done" ]
              /\ call' = [ call EXCEPT ![t] = NoCall ]
              /\ frame' = [ frame EXCEPT ![t] = NoFrame ]
         ELSE /\ pc' = [ pc EXCEPT ![t] = "send" ]
              /\ UNCHANGED << outcome, call, frame >>
  /\ wire' = [ wire EXCEPT ![t] = NoRequest ]
  /\ UNCHANGED << side, client, now, nsent >>

\* send() returns the exchange's response and the call decodes it.
Respond(t) ==
  /\ pc[t] = "recv"
  /\ \E status \in Statuses, body \in ResponseBodies :
       outcome' = [ outcome EXCEPT
                      ![t] = [ api |-> call[t].api, responded |-> TRUE,
                               status |-> status, body |-> body,
                               result |-> decode_response(status, body) ] ]
  /\ pc' = [ pc EXCEPT ![t] = "done" ]
  /\ wire' = [ wire EXCEPT ![t] = NoRequest ]
  /\ call' = [ call EXCEPT ![t] = NoCall ]
  /\ frame' = [ frame EXCEPT ![t] = NoFrame ]
  /\ UNCHANGED << side, client, now, nsent >>

\* The call returns to its caller; the thread may call again.
Return(t) ==
  /\ pc[t] = "done"
  /\ pc' = [ pc EXCEPT ![t] = "idle" ]
  /\ nsent' = [ nsent EXCEPT ![t] = 0 ]
  /\ outcome' = [ outcome EXCEPT ![t] = NoOutcome ]
  /\ UNCHANGED << side, client, now, call, frame, wire >>

\* A second passes.
Tick ==
  /\ now < ClockStart + MaxTicks
  /\ now' = now + 1
  /\ UNCHANGED << side, client, pc, call, frame, wire, nsent, outcome >>

Step(t) ==
  \/ GetTime(t)
  \/ BuildHeaders(t)
  \/ Send(t)
  \/ SendFails(t)
  \/ RecvFails(t)
  \/ Respond(t)
  \/ Return(t)

Invoke(t) ==
  \/ get_accounts(t)
  \/ \E id \in Uuids : get_account(t, id)
  \/ \E id \in Uuids : get_account_history(t, id)
  \/ \E id \in Uuids : get_account_holds(t, id)
  \/ \E o \in SomeOrders : post_order(t, o)
  \/ \E id \in Uuids : cancel_order(t, id)
  \/ \E p \in { None } \cup { Some(x) : x \in Products } : cancel_all_orders(t, p)
  \/ \E o \in BOOLEAN, p \in BOOLEAN, a \in BOOLEAN :
       get_orders_with_status(t, o, p, a)
  \/ get_orders(t)
  \/ \E id \in Uuids : get_order(t, id)
  \/ get_products(t)
  \/ \E p \in Products : get_product_ticker(t, p)

Next == Tick \/ \E t \in Threads : Invoke(t) \/ Step(t)

Spec == Init /\ [][Next]_vars

\* A single caller posting every NewOrder of the input sets.
NextOrders ==
  \/ Tick
  \/ \E o \in NewOrders : post_order("t1", o)
  \/ Step("t1")

SpecOrders == Init /\ [][NextOrders]_vars

\* ------------------------------------------------------------------ claims

Private(t) == call[t].api = "private"

InFlight(t) == wire[t] # NoRequest

\* The method text of a request as characters.
VerbChars(verb) == CHOOSE m \in { GET, POST, DELETE } : Str(m) = verb

\* C1: for every private request on the network, the signature it carries is
\* the signature of the method, path and body that are transmitted: the URL
\* is the origin followed by the signed path, a POST carries exactly the
\* signed body, and a GET or DELETE signs the empty string and carries no
\* body.
C1_SignedIsSent ==
  \A t \in Threads :
    (InFlight(t) /\ Private(t)) =>
      LET r == wire[t] IN
      /\ r.url = PRIVATE_API_URL \o frame[t].path
      /\ r.headers["CB-ACCESS-SIGN"] =
           signature(client, frame[t].path, r.body,
                     r.headers["CB-ACCESS-TIMESTAMP"], VerbChars(r.verb)).val
      /\ r.verb = "POST" => (r.has_body /\ r.body = frame[t].body)
      /\ r.verb \in { "GET", "DELETE" } => (~r.has_body /\ r.body = "")

C1_Witness ==
  \E t \in Threads :
    /\ InFlight(t) /\ Private(t)
    /\ wire[t].verb = "POST" /\ wire[t].has_body /\ wire[t].body # ""

\* The timestamp header of a request on the network is the string its
\* signature was computed with.
C2_HeaderTimestamp ==
  \A t \in Threads :
    (InFlight(t) /\ Private(t)) =>
      /\ wire[t].headers["CB-ACCESS-TIMESTAMP"] = frame[t].timestamp
      /\ wire[t].headers["CB-ACCESS-SIGN"] =
           signature(client, frame[t].path, frame[t].body,
                     wire[t].headers["CB-ACCESS-TIMESTAMP"],
                     frame[t].method).val

\* The step that takes a call's timestamp takes the clock as it then stands.
C2_ReadAnew ==
  \A t \in Threads :
    (pc[t] = "get_time" /\ pc'[t] = "sign") =>
      frame'[t].timestamp = to_string(now)

\* C2: the CB-ACCESS-TIMESTAMP header of a private request is the timestamp
\* string its signature was computed with, and every request's timestamp is
\* the decimal text of the clock as read during that request, never a value
\* kept from an earlier one.
C2_FreshTimestamp == [](C2_HeaderTimestamp) /\ [][C2_ReadAnew]_vars

\* A request sent after the clock has advanced carries the later reading.
C2_Witness ==
  \E t \in Threads :
    /\ InFlight(t) /\ Private(t)
    /\ now > ClockStart
    /\ wire[t].headers["CB-ACCESS-TIMESTAMP"] = to_string(now)

\* How often a member name occurs in an encoded object, and its text.
Count(ms, n) == Cardinality({ i \in DOMAIN ms : ms[i].name = n })

TextOf(ms, n) == ms[CHOOSE i \in DOMAIN ms : ms[i].name = n].text

\* C3: the body of every posted order has one `type` member, "limit",
\* "market" or "stop" as the variant is; a Market or Stop body has exactly one
\* of `size` and `funds`, the one the SizeOrFunds discriminant names, with its
\* amount; a Limit body has `price` and `size` and no `funds`; a Market body
\* has no `price`.
C3_OrderShape ==
  \A t \in Threads :
    call[t].name = "post_order" =>
      LET o  == call[t].args[1]
          ms == NewOrder_serialize(o)
      IN /\ frame[t].body = "{" \o json_members(ms) \o "}"
         /\ Count(ms, "type") = 1
         /\ o.kind = "Limit" =>
              /\ TextOf(ms, "type") = "\"limit\""
              /\ Count(ms, "price") = 1 /\ Count(ms, "size") = 1
              /\ Count(ms, "funds") = 0
              /\ TextOf(ms, "price") = fmt_f64(o.price)
              /\ TextOf(ms, "size") = fmt_f64(o.size)
         /\ o.kind = "Market" =>
              /\ TextOf(ms, "type") = "\"market\""
              /\ Count(ms, "price") = 0
         /\ o.kind = "Stop" => TextOf(ms, "type") = "\"stop\""
         /\ o.kind \in { "Market", "Stop" } =>
              /\ Count(ms, "size") + Count(ms, "funds") = 1
              /\ o.size_or_funds.tag = "Size" =>
                   /\ Count(ms, "size") = 1
                   /\ TextOf(ms, "size") = fmt_f64(o.size_or_funds.val)
              /\ o.size_or_funds.tag = "Funds" =>
                   /\ Count(ms, "funds") = 1
                   /\ TextOf(ms, "funds") = fmt_f64(o.size_or_funds.val)

C3_Witness ==
  \E t \in Threads :
    /\ call[t].name = "post_order" /\ InFlight(t)
    /\ call[t].args[1].kind = "Stop"
    /\ call[t].args[1].size_or_funds.tag = "Funds"
    /\ wire[t].body =
         "{\"type\":\"stop\",\"side\":\"sell\",\"product_id\":\"BTC-USD\",\"price\":25.5,\"funds\":1.01}"

\* C4: a private call answered with a non-success status and a body that has
\* a string member `message` returns the Api error with exactly that message.
C4_ApiError ==
  \A t \in Threads :
    ( /\ outcome[t].api = "private" /\ outcome[t].responded
      /\ ~is_success(outcome[t].status)
      /\ outcome[t].body.json /\ outcome[t].body.has_message ) =>
        outcome[t].result =
          Err([ kind |-> "Api", message |-> outcome[t].body.message ])

C4_Witness ==
  \E t \in Threads :
    /\ outcome[t].api = "private" /\ outcome[t].responded
    /\ outcome[t].status = 400
    /\ outcome[t].body.message = "Insufficient funds"
    /\ outcome[t].result.tag = "Err"
    /\ outcome[t].result.err.kind = "Api"

\* The query string each combination of flags is to give.
ExpectedStatusQuery(open, pending, active) ==
  CASE open /\ pending /\ active -> "status=open&status=pending&status=active"
    [] open /\ pending /\ ~active -> "status=open&status=pending"
    [] open /\ ~pending /\ active -> "status=open&status=active"
    [] open /\ ~pending /\ ~active -> "status=open"
    [] ~open /\ pending /\ active -> "status=pending&status=active"
    [] ~open /\ pending /\ ~active -> "status=pending"
    [] ~open /\ ~pending /\ active -> "status=active"
    [] ~open /\ ~pending /\ ~active -> ""

\* C5: get_orders_with_status requests /orders? followed by status=<name> for
\* exactly the true flags, in the order open, pending, active, joined by
\* single &; the request on the network has that path.
C5_StatusQuery ==
  \A t \in Threads :
    call[t].name = "get_orders_with_status" =>
      LET a == call[t].args
          expected == "/orders?" \o ExpectedStatusQuery(a[1], a[2], a[3])
      IN /\ frame[t].path = expected
         /\ InFlight(t) => wire[t].url = PRIVATE_API_URL \o expected

C5_Witness ==
  \E t \in Threads :
    /\ call[t].name = "get_orders_with_status"
    /\ call[t].args = << TRUE, FALSE, TRUE >>
    /\ InFlight(t)
    /\ wire[t].url = "https://api.gdax.com/orders?status=open&status=active"

\* C6: with all three flags false get_orders_with_status requests and signs
\* exactly /orders, with no trailing `?`.
C6_NoFlagsNoQuery ==
  \A t \in Threads :
    ( /\ call[t].name = "get_orders_with_status"
      /\ call[t].args = << FALSE, FALSE, FALSE >>
      /\ InFlight(t) ) =>
        /\ wire[t].url = PRIVATE_API_URL \o "/orders"
        /\ wire[t].headers["CB-ACCESS-SIGN"] =
             signature(client, "/orders", "", frame[t].timestamp, GET).val

\* C7: no private request method is ever invoked on a client whose secret does
\* not decode as base64: Client::new has rejected such a secret.
C7_SecretCheckedAtConstruction ==
  (\E t \in Threads : Private(t)) =>
    base64_decode(client.secret).tag = "Ok"

\* C8: an invocation calls send() at most once, whatever the outcome.
C8_AtMostOneRequest ==
  \A t \in Threads :
    /\ nsent[t] <= 1
    /\ pc[t] \in { "idle", "get_time", "sign", "send" } => nsent[t] = 0
    /\ pc[t] = "done" => ~InFlight(t)

C8_Witness ==
  \E t \in Threads :
    /\ pc[t] = "done" /\ nsent[t] = 1
    /\ outcome[t].responded /\ outcome[t].status = 400
    /\ outcome[t].result.tag = "Err"

\* The method, path and body a client method is to request for its own
\* arguments.
OwnRequest(c) ==
  CASE c.name = "get_accounts" -> << GET, "/accounts", "" >>
    [] c.name = "get_account" -> << GET, "/accounts/" \o c.args[1], "" >>
    [] c.name = "get_account_history" ->
         << GET, "/accounts/" \o c.args[1] \o "/ledger", "" >>
    [] c.name = "get_account_holds" ->
         << GET, "/accounts/" \o c.args[1] \o "/holds", "" >>
    [] c.name = "post_order" -> << POST, "/orders", ser_to_string(c.args[1]) >>
    [] c.name = "cancel_order" -> << DELETE, "/order/" \o c.args[1], "" >>
    [] c.name = "cancel_all_orders" ->
         << DELETE, cancel_all_orders_path(c.args[1]), "" >>
    [] c.name \in { "get_orders_with_status", "get_orders" } ->
         << GET, "/orders?" \o ExpectedStatusQuery(c.args[1], c.args[2], c.args[3]),
            "" >>
    [] c.name = "get_order" -> << GET, "/orders/" \o c.args[1], "" >>

C9_OwnValues ==
  \A t \in Threads :
    (Private(t) /\ pc[t] \in { "send", "recv" }) =>
      LET own == OwnRequest(call[t]) IN
      /\ frame[t].headers["CB-ACCESS-TIMESTAMP"] = frame[t].timestamp
      /\ frame[t].headers["CB-ACCESS-SIGN"] =
           signature(client, own[2], own[3], frame[t].timestamp, own[1]).val
      /\ pc[t] = "recv" =>
           wire[t].headers["CB-ACCESS-SIGN"] = frame[t].headers["CB-ACCESS-SIGN"]

\* C9: with calls interleaved on one client, the signature each call holds is
\* the signature of that call's own timestamp, method, path and body, and no
\* step changes the client's key, secret or passphrase.
C9_NoSharedSigningState == [](C9_OwnValues) /\ [][client' = client]_vars

\* Two calls in progress at once, with different paths and timestamps.
C9_Witness ==
  \E t \in Threads, u \in Threads :
    /\ t # u /\ Private(t) /\ Private(u)
    /\ pc[t] = "recv" /\ pc[u] \in { "send", "recv" }
    /\ frame[t].timestamp # frame[u].timestamp
    /\ frame[t].path # frame[u].path

AuthHeaders ==
  { "CB-ACCESS-KEY", "CB-ACCESS-SIGN", "CB-ACCESS-PASSPHRASE",
    "CB-ACCESS-TIMESTAMP" }

\* C10: every private request on the network carries the four auth headers
\* and the user agent, with the client's key and passphrase; a POST carries a
\* body, and a request with a body carries content-type application/json.
C10_RequestHeaders ==
  \A t \in Threads :
    (InFlight(t) /\ Private(t)) =>
      LET h == wire[t].headers IN
      /\ wire[t].verb \in { "GET", "POST", "DELETE" }
      /\ AuthHeaders \cup { "User-Agent" } \subseteq DOMAIN h
      /\ h["CB-ACCESS-KEY"] = client.key
      /\ h["CB-ACCESS-PASSPHRASE"] = client.passphrase
      /\ h["User-Agent"] = USER_AGENT
      /\ wire[t].verb = "POST" <=> wire[t].has_body
      /\ wire[t].has_body =>
           /\ "Content-Type" \in DOMAIN h
           /\ h["Content-Type"] = "application/json"

C10_Witness ==
  \E t \in Threads, u \in Threads :
    /\ InFlight(t) /\ Private(t) /\ wire[t].verb = "POST" /\ wire[t].has_body
    /\ InFlight(u) /\ Private(u) /\ wire[u].verb = "DELETE"

\* C11: a private call answered with a non-success status and a body that is
\* not a JSON object with a string member `message` returns the Json error:
\* it returns (no panic), and neither an Api error nor a success value.
C11_MalformedErrorBody ==
  \A t \in Threads :
    ( /\ outcome[t].api = "private" /\ outcome[t].responded
      /\ ~is_success(outcome[t].status)
      /\ ~(outcome[t].body.json /\ outcome[t].body.has_message) ) =>
        /\ pc[t] = "done"
        /\ outcome[t].result = Err([ kind |-> "Json", message |-> "" ])

\* Both a body that is not JSON and a well-formed body of the target type
\* without a message have been answered with status 400.
C11_Witness ==
  \E t \in Threads, u \in Threads :
    /\ outcome[t].api = "private" /\ outcome[t].responded
    /\ outcome[t].status = 400 /\ ~outcome[t].body.json
    /\ outcome[t].result.tag = "Err" /\ outcome[t].result.err.kind = "Json"
    /\ outcome[u].api = "private" /\ outcome[u].responded
    /\ outcome[u].status = 400 /\ outcome[u].body.target
    /\ ~outcome[u].body.has_message
    /\ outcome[u].result.tag = "Err" /\ outcome[u].result.err.kind = "Json"

\* ------------------------------------------------- signature on drawn inputs

\* Arguments for Client::signature: its method parameter is a &str, given
\* here in both letter cases.
SignMethods == { GET, POST, << "g", "e", "t" >> }

SignPaths == { "/orders", "/accounts" }

SignBodies == { "", "{}" }

\* get_headers entered with drawn arguments; GetTime and BuildHeaders then
\* compute the signature as in every private call.
sign_call(t, method, path, body) ==
  private_call(t, "signature", << >>, method, path, body)

NextSign ==
  \/ Tick
  \/ \E t \in Threads :
       \/ \E m \in SignMethods, p \in SignPaths, b \in SignBodies :
            sign_call(t, m, p, b)
       \/ GetTime(t)
       \/ BuildHeaders(t)

SpecSign == Init /\ [][NextSign]_vars

\* The call has signed: its header map holds the signature.
Signed(t) == Private(t) /\ pc[t] = "send"

SignInputs(t) ==
  << frame[t].timestamp, frame[t].method, frame[t].path, frame[t].body >>

SignatureOf(t) == frame[t].headers["CB-ACCESS-SIGN"]

\* The message the HMAC was computed over.
MessageOf(t) == SignatureOf(t).base64_of.hmac_input

\* The positions at which two input tuples differ.
Differing(a, b) == { i \in 1..4 : a[i] # b[i] }

RECURSIVE SameIgnoringCase(_, _)
SameIgnoringCase(a, b) ==
  IF a = << >> \/ b = << >> THEN a = b
  ELSE /\ \/ Head(a) = Head(b)
          \/ \E i \in DOMAIN LowerAlpha :
               { Head(a), Head(b) } = { LowerAlpha[i], UpperAlpha[i] }
       /\ SameIgnoringCase(Tail(a), Tail(b))

BuyCasings ==
  { << b, u, y >> : b \in { "b", "B" }, u \in { "u", "U" }, y \in { "y", "Y" } }

SellCasings ==
  { << s, e, l, m >> :
      s \in { "s", "S" }, e \in { "e", "E" }, l \in { "l", "L" },
      m \in { "l", "L" } }

\* Strings that name no side.
OtherTexts ==
  { << >>, << "b" >>, << "b", "u" >>, << "b", "u", "y", "s" >>,
    << "b", "u", "y", " " >>, << " ", "b", "u", "y" >>,
    << "B", "I", "D" >>, << "b", "y", "e" >>,
    << "s", "e", "l" >>, << "S", "E", "L", "L", "S" >>,
    << "s", "e", "1", "1" >>, << "a", "s", "k" >>,
    << "l", "o", "n", "g" >>, << "0" >>, << "t", "r", "u", "e" >>,
    << "b", "u", "y", "s", "e", "l", "l" >> }

SideTexts == BuyCasings \cup SellCasings \cup OtherTexts

\* The characters of an encoded side.
Chars(s) == CHOOSE c \in SideTexts : Str(c) = s

\* A response holds a side string taken from SideTexts.
InitSide ==
  /\ InitClient
  /\ side \in { [ phase |-> "text", text |-> x, value |-> Err(""),
                  source |-> "" ] : x \in SideTexts }

\* Side::deserialize of the text at hand.
DecodeSide ==
  /\ side.phase \in { "text", "encoded" }
  /\ side' = [ side EXCEPT !.phase = "decoded",
                           !.value = Side_deserialize(side.text) ]
  /\ UNCHANGED << client, now, pc, call, frame, wire, nsent, outcome >>

\* Side::serialize of a decoded side (as a NewOrder's side member is
\* written); the text written replaces the one read.
EncodeSide ==
  /\ side.phase = "decoded"
  /\ side.value.tag = "Ok"
  /\ side.source = ""
  /\ side' = [ phase |-> "encoded",
               text |-> Chars(Side_serialize(side.value.val)),
               value |-> Err(""),
               source |-> side.value.val ]
  /\ UNCHANGED << client, now, pc, call, frame, wire, nsent, outcome >>

NextSide == DecodeSide \/ EncodeSide

SpecSide == InitSide /\ [][NextSide]_vars

\* C13: every casing of "buy" decodes to Buy and every casing of "sell" to
\* Sell; a side is encoded as exactly "buy" or "sell"; decoding an encoded
\* side gives the side back; any other string fails to decode.
C13_SideCodec ==
  /\ (side.phase = "decoded" /\ side.source = "") =>
       /\ side.text \in BuyCasings => side.value = Ok("Buy")
       /\ side.text \in SellCasings => side.value = Ok("Sell")
       /\ side.text \notin BuyCasings \cup SellCasings => side.value.tag = "Err"
  /\ side.phase = "encoded" =>
       /\ side.source = "Buy" => side.text = << "b", "u", "y" >>
       /\ side.source = "Sell" => side.text = << "s", "e", "l", "l" >>
  /\ (side.phase = "decoded" /\ side.source # "") =>
       side.value = Ok(side.source)

\* "SeLl" was read, decoded, written as "sell" and decoded again to Sell.
C13_Witness ==
  /\ side.phase = "decoded"
  /\ side.source = "Sell"
  /\ side.text = << "s", "e", "l", "l" >>
  /\ side.value = Ok("Sell")


\* ------------------------------------------------- an undecodable secret

\* The call thread t is making, or has just finished, is a private one.
PrivateCall(t) == call[t].api = "private" \/ outcome[t].api = "private"

\* C14: on a client whose secret is not valid base64, every private call
\* (GET, POST and DELETE alike) ends in InvalidSecretKey when its headers are
\* built, before send(): it never holds a built request to send, nothing of
\* it is on the wire, and no request of it has been sent.
C14_InvalidSecretBeforeSend ==
  base64_decode(client.secret).tag = "Err" =>
    \A t \in Threads :
      PrivateCall(t) =>
        /\ pc[t] \in { "get_time", "sign", "done" }
        /\ nsent[t] = 0
        /\ wire[t] = NoRequest
        /\ pc[t] = "done" => outcome[t] = failed("private", InvalidSecretKey)

\* With an undecodable secret, one private call has returned InvalidSecretKey
\* with nothing sent while another, a DELETE, is about to build its headers.
C14_Witness ==
  /\ base64_decode(client.secret).tag = "Err"
  /\ \E t, u \in Threads :
       /\ t # u
       /\ pc[t] = "done"
       /\ outcome[t] = failed("private", InvalidSecretKey)
       /\ nsent[t] = 0
       /\ pc[u] = "sign"
       /\ call[u].api = "private"
       /\ frame[u].method = DELETE
       /\ nsent[u] = 0

====
